---- MODULE Spec2Model ----
(***************************************************************************)
(* Model of kabutech_infer_recommend.py: the rule engine `recommend`, the  *)
(* manual environment input `get_env_manual` and the session `main` that   *)
(* appends one JSON line per completed session to kabutech_log.jsonl.      *)
(*                                                                         *)
(* Numbers.  Environment readings are fixed-point integers in hundredths   *)
(* (35.0 degrees is 3500, a quality score of 0.6 is 60).  Confidences are  *)
(* integers in units of 1e-5 (0.70 is 70000), fine enough to tell the      *)
(* value the gate compares from the value round(conf, 4) logs and from     *)
(* the two decimals the low-confidence alert prints.                       *)
(***************************************************************************)
EXTENDS Integers, Sequences, FiniteSets, TLC

VARIABLES
    epc, call, ret,                       \* one call of recommend: position, arguments, return value
    pc, img, input, env, pred, result,    \* per session: position and the locals of main
    pending,                              \* per session: write calls not yet issued on the open log
    log,                                  \* kabutech_log.jsonl as the sequence of tokens written
    owner,                                \* ghost: the session that wrote each token of log
    engineCalls,                          \* ghost: the sessions that called recommend
    history                               \* ghost: completed sessions, in completion order

vars == <<epc, call, ret, pc, img, input, env, pred, result, pending, log, owner,
          engineCalls, history>>

(***************************************************************************)
(* 1) CONFIG                                                               *)
(***************************************************************************)
SEVERITY ==
    [ bacterial_blotch_disease |-> "moderate",
      dry_bubble_disease       |-> "moderate",
      green_molds_disease      |-> "high",
      healthy_fruiting_bag     |-> "none",
      healthy_mushroom         |-> "none" ]

TARGETS ==
    [ temp_c                 |-> <<2000, 2800>>,
      humidity_rh            |-> <<8500, 9500>>,
      light_lux              |-> <<5000, 30000>>,
      substrate_moisture_pct |-> <<5500, 6500>> ]

CONF_THRESHOLD == 70000

QUALITY_THRESHOLD == 60

(***************************************************************************)
(* 2) RULE ENGINE                                                          *)
(***************************************************************************)

\* f"{conf:.2f}": the confidence in hundredths, rounded to nearest (the
\* confidences drawn are never halfway between two hundredths).
Fmt2(conf) == (conf + 500) \div 1000

\* SEVERITY.get(pred_class, "unknown")
SeverityOfWrongDefault(pred_class) ==
    IF pred_class \in DOMAIN SEVERITY THEN SEVERITY[pred_class] ELSE "none"

SeverityOf(pred_class) ==
    IF pred_class \in DOMAIN SEVERITY THEN SEVERITY[pred_class] ELSE "unknown"

\* the confidence gate's condition
LowConfidenceInclusive(conf) == conf <= CONF_THRESHOLD

LowConfidence(conf) == conf < CONF_THRESHOLD

\* the alert and the two actions of the short-circuit path
LowConfidenceAlert(conf) ==
    [msg |-> "Low confidence", key |-> "", unit |-> "", args |-> <<Fmt2(conf)>>]

LowConfidenceActions ==
    << "Retake photo with better focus and lighting; keep subject centered.",
       "If symptoms persist, isolate and monitor the bag/mushroom." >>

\* v < lo or v > hi
OutOfRangeExclusive(v, lo, hi) == v <= lo \/ v >= hi

OutOfRange(v, lo, hi) == v < lo \/ v > hi

\* env.get(key, None) is None
Absent(e, key) == key \notin DOMAIN e

\* check_range: the alerts it appends
check_range(e, key, unit) ==
    LET lo == TARGETS[key][1]
        hi == TARGETS[key][2]
    IN  IF Absent(e, key) THEN <<>>
        ELSE IF OutOfRange(e[key], lo, hi)
             THEN << [msg |-> "out of range", key |-> key, unit |-> unit,
                      args |-> <<e[key], lo, hi>>] >>
             ELSE <<>>

\* the four guarded calls of check_range, in source order (the unit of
\* temp_c, the degree sign and C, is written "C")
RangeAlerts(e) ==
       (IF "temp_c" \in DOMAIN e THEN check_range(e, "temp_c", "C") ELSE <<>>)
    \o (IF "humidity_rh" \in DOMAIN e THEN check_range(e, "humidity_rh", "%") ELSE <<>>)
    \o (IF "light_lux" \in DOMAIN e THEN check_range(e, "light_lux", " lux") ELSE <<>>)
    \o (IF "substrate_moisture_pct" \in DOMAIN e
        THEN check_range(e, "substrate_moisture_pct", "%") ELSE <<>>)

MoldActions ==
    << "HIGH severity: isolate/remove contaminated bag immediately to prevent spread.",
       "Sterilize tools and nearby surfaces.",
       "Reduce overly-wet conditions; increase fresh-air exchange." >>

BubbleActions ==
    << "MODERATE severity: isolate affected bag.",
       "Avoid direct misting on fruiting bodies; improve airflow.",
       "Sanitize handling area and tools." >>

BlotchActions ==
    << "MODERATE severity: reduce surface moisture (avoid water droplets on caps).",
       "Increase ventilation; avoid overcrowding.",
       "Sanitize area to reduce bacterial spread." >>

GenericActions ==
    << "No disease detected: continue monitoring.",
       "Maintain chamber conditions within target ranges." >>

\* the if / elif / elif / else chain on pred_class
CategoryActionsSwapped(pred_class) ==
    IF pred_class = "green_molds_disease" THEN MoldActions
    ELSE IF pred_class = "dry_bubble_disease" THEN BlotchActions
    ELSE IF pred_class = "bacterial_blotch_disease" THEN BubbleActions
    ELSE GenericActions

CategoryActions(pred_class) ==
    IF pred_class = "green_molds_disease" THEN MoldActions
    ELSE IF pred_class = "dry_bubble_disease" THEN BubbleActions
    ELSE IF pred_class = "bacterial_blotch_disease" THEN BlotchActions
    ELSE GenericActions

QualityAlert ==
    [msg |-> "Substrate quality flagged as poor (score < 0.6).",
     key |-> "", unit |-> "", args |-> <<>>]

QualityAction ==
    "Consider replacing/refreshing substrate and reviewing sterilization/pasteurization."

\* q is not None and q < 0.6
QualityPoorInclusive(e) ==
    /\ ~Absent(e, "substrate_quality_score")
    /\ e["substrate_quality_score"] <= QUALITY_THRESHOLD

QualityPoor(e) ==
    /\ ~Absent(e, "substrate_quality_score")
    /\ e["substrate_quality_score"] < QUALITY_THRESHOLD

\* recommend without the gate's return: the low-confidence output is followed by the full path's
recommendFallThrough(pred_class, conf, e) ==
    LET severity == SeverityOf(pred_class)
        gate == LowConfidence(conf)
    IN  [severity |-> severity,
         alerts   |-> (IF gate THEN <<LowConfidenceAlert(conf)>> ELSE <<>>)
                      \o RangeAlerts(e)
                      \o (IF QualityPoor(e) THEN <<QualityAlert>> ELSE <<>>),
         actions  |-> (IF gate THEN LowConfidenceActions ELSE <<>>)
                      \o CategoryActions(pred_class)
                      \o (IF QualityPoor(e) THEN <<QualityAction>> ELSE <<>>)]

recommend(pred_class, conf, e) ==
    LET severity == SeverityOf(pred_class)
    IN  IF LowConfidence(conf)
        THEN [severity |-> severity,
              alerts   |-> <<LowConfidenceAlert(conf)>>,
              actions  |-> LowConfidenceActions]
        ELSE [severity |-> severity,
              alerts   |-> RangeAlerts(e)
                           \o (IF QualityPoor(e) THEN <<QualityAlert>> ELSE <<>>),
              actions  |-> CategoryActions(pred_class)
                           \o (IF QualityPoor(e) THEN <<QualityAction>> ELSE <<>>)]

(***************************************************************************)
(* 3) INPUT (manual).  An answer typed by the operator is a sequence of    *)
(* characters.                                                             *)
(***************************************************************************)
RECURSIVE LStrip(_, _)
LStrip(str, chars) ==
    IF str # <<>> /\ Head(str) \in chars THEN LStrip(Tail(str), chars) ELSE str

RECURSIVE RStrip(_, _)
RStrip(str, chars) ==
    IF str # <<>> /\ str[Len(str)] \in chars
    THEN RStrip(SubSeq(str, 1, Len(str) - 1), chars) ELSE str

\* str.strip() and str.strip('"')
Strip(str, chars) == RStrip(LStrip(str, chars), chars)

Whitespace == {" "}

DigitChars == <<"0", "1", "2", "3", "4", "5", "6", "7", "8", "9">>

IsDigit(c) == \E i \in DOMAIN DigitChars : DigitChars[i] = c

DigitVal(c) == (CHOOSE i \in DOMAIN DigitChars : DigitChars[i] = c) - 1

RECURSIVE NatOf(_)
NatOf(ds) ==
    IF ds = <<>> THEN 0
    ELSE 10 * NatOf(SubSeq(ds, 1, Len(ds) - 1)) + DigitVal(ds[Len(ds)])

\* float(s) on decimal numerals [-]digits[.digits]: the value in hundredths
\* (fractional digits past the second are below the resolution of the model),
\* or an error (ValueError) for text that is no numeral.  The other forms
\* float() accepts (exponents, "inf", "nan", underscores) are not among the
\* answers drawn in EnvScripts.
float(str) ==
    LET neg  == str # <<>> /\ Head(str) = "-"
        body == IF neg THEN Tail(str) ELSE str
        dots == {i \in DOMAIN body : body[i] = "."}
        dot  == IF dots = {} THEN Len(body) + 1
                ELSE CHOOSE i \in dots : \A j \in dots : i <= j
        ip   == SubSeq(body, 1, dot - 1)
        fp   == SubSeq(body, dot + 1, Len(body))
        ok   == /\ \A i \in DOMAIN ip : IsDigit(ip[i])
                /\ \A i \in DOMAIN fp : IsDigit(fp[i])
                /\ Len(ip) + Len(fp) >= 1
        frac == IF Len(fp) = 0 THEN 0
                ELSE IF Len(fp) = 1 THEN 10 * DigitVal(fp[1])
                ELSE NatOf(SubSeq(fp, 1, 2))
        mag  == 100 * NatOf(ip) + frac
    IN  IF ok THEN [kind |-> "value", v |-> IF neg THEN 0 - mag ELSE mag]
        ELSE [kind |-> "error", v |-> 0]

\* get_float that takes an unparsable answer for a skipped one
get_floatLenient(answer) ==
    LET str == Strip(answer, Whitespace)
    IN  IF str = <<>> \/ float(str).kind = "error"
        THEN [kind |-> "none", v |-> 0] ELSE float(str)

\* get_float: None for a blank answer, else float(s), which may raise
get_float(answer) ==
    LET str == Strip(answer, Whitespace)
    IN  IF str = <<>> THEN [kind |-> "none", v |-> 0] ELSE float(str)

\* the five prompts of get_env_manual, in order
EnvKeyOrder ==
    <<"temp_c", "humidity_rh", "light_lux", "substrate_moisture_pct",
      "substrate_quality_score">>

EmptyEnv == [k \in {} |-> 0]

\* get_env_manual from prompt i on with e collected so far: the env returned,
\* or ok = FALSE when a get_float raises
RECURSIVE CollectEnv(_, _, _)
CollectEnv(answers, i, e) ==
    IF i > Len(EnvKeyOrder) THEN [ok |-> TRUE, env |-> e]
    ELSE LET r == get_float(answers[i])
         IN  IF r.kind = "error" THEN [ok |-> FALSE, env |-> e]
             ELSE CollectEnv(answers, i + 1,
                             IF r.kind = "none" THEN e
                             ELSE (EnvKeyOrder[i] :> r.v) @@ e)

get_env_manual(answers) == CollectEnv(answers, 1, EmptyEnv)

(***************************************************************************)
(* 4) MAIN.  One session is one run of main; sessions are separate         *)
(* processes that share the file system and the log.                       *)
(***************************************************************************)
NumSessions == 2

Sessions == 1..NumSessions

\* the paths that exist
FileSystem == {<<"bag.jpg">>}

\* p.exists() answering yes for every path
ExistsAlways(p) == TRUE

\* p.exists()
Exists(p) == p \in FileSystem

\* what the operator may type at "Path to image: "
ImageInputs ==
    { <<" ", "\"", "bag.jpg", "\"", " ">>,
      <<"missing.jpg">> }

\* what the operator may type at the five prompts of get_env_manual
EnvScripts ==
    { << <<>>, <<" ">>, <<>>, <<>>, <<>> >>,
      << <<"3", "5">>, <<>>, <<>>, <<>>, <<"0", ".", "4">> >>,
      << <<" ", "2", "4", " ">>, <<"9", "0">>, <<"a", "b", "c">>, <<>>, <<>> >>,
      << <<"2", "8">>, <<"8", "5", ".", "0">>, <<"3", "0", "0">>, <<"5", "5">>,
         <<"0", ".", "6">> >>,
      << <<>>, <<>>, <<>>, <<>>, <<"n", "/", "a">> >> }

\* what model.predict may return: (model.names[top1], top1conf)
Predictions ==
    { [pred_class |-> "green_molds_disease",      conf |-> 95000],
      [pred_class |-> "healthy_mushroom",         conf |-> 40000],
      [pred_class |-> "bacterial_blotch_disease", conf |-> 80000],
      [pred_class |-> "dry_bubble_disease",       conf |-> 69996] }

\* datetime.now() to the second
Timestamps == {1, 2}

\* round(conf, 4): the confidence in units of 1e-4, rounded to nearest
Round4(conf) == (conf + 5) \div 10

NoPred == [pred_class |-> "", conf |-> 0]

NoResult == [severity |-> "", alerts |-> <<>>, actions |-> <<>>]

NoRecord ==
    [timestamp |-> 0, image |-> <<>>, predicted_class |-> "", confidence |-> 0,
     severity |-> "", environment |-> EmptyEnv, alerts |-> <<>>, actions |-> <<>>]

\* the result dict of main
ResultRecord(ts, p, pr, e, r) ==
    [timestamp       |-> ts,
     image           |-> p,
     predicted_class |-> pr.pred_class,
     confidence      |-> Round4(pr.conf),
     severity        |-> r.severity,
     environment     |-> e,
     alerts          |-> r.alerts,
     actions         |-> r.actions]

\* json.dumps(result) + "\n": the JSON text, which holds no raw newline, then the newline
Line(rec) == << [t |-> "json", v |-> rec], [t |-> "nl", v |-> NoRecord] >>

\* a file object that hands every token to the operating system on its own
WriteCallsPerToken(line) == [i \in DOMAIN line |-> <<line[i]>>]

\* the writes the file object issues for f.write(line) followed by close():
\* the line is buffered and flushed whole
WriteCalls(line) == <<line>>

\* a log opened with mode "w"
OverwriteLog(file, chunk) == chunk

\* one write on a file opened with mode "a": the chunk lands at the end
AppendToLog(file, chunk) == file \o chunk

Failed == {"failed_load", "failed_env", "failed_predict"}

SessionInit ==
    /\ pc = [s \in Sessions |-> "load"]
    /\ img = [s \in Sessions |-> <<>>]
    /\ input = [s \in Sessions |-> <<>>]
    /\ env = [s \in Sessions |-> EmptyEnv]
    /\ pred = [s \in Sessions |-> NoPred]
    /\ result = [s \in Sessions |-> NoResult]
    /\ pending = [s \in Sessions |-> <<>>]
    /\ log = <<>>
    /\ owner = <<>>
    /\ engineCalls = {}
    /\ history = <<>>

NoCall == [pred_class |-> "", conf |-> 0, env |-> EmptyEnv]

Init ==
    /\ epc = "idle"
    /\ call = NoCall
    /\ ret = NoResult
    /\ SessionInit

\* model = YOLO(MODEL_PATH)
LoadModel(s) ==
    /\ pc[s] = "load"
    /\ \/ pc' = [pc EXCEPT ![s] = "ask_image"]
       \/ pc' = [pc EXCEPT ![s] = "failed_load"]
    /\ UNCHANGED <<epc, call, ret, img, input, env, pred, result, pending, log, owner,
                   engineCalls, history>>

\* img_path = input(...).strip().strip('"'); return when the path does not exist
ReadImagePath(s) ==
    /\ pc[s] = "ask_image"
    /\ \E typed \in ImageInputs :
         LET p == Strip(Strip(typed, Whitespace), {"\""})
         IN  /\ img' = [img EXCEPT ![s] = p]
             /\ pc' = [pc EXCEPT ![s] = IF Exists(p) THEN "env" ELSE "aborted"]
    /\ UNCHANGED <<epc, call, ret, input, env, pred, result, pending, log, owner,
                   engineCalls, history>>

\* env = get_env_manual(); a ValueError of float() ends the session
GetEnvManual(s) ==
    /\ pc[s] = "env"
    /\ \E answers \in EnvScripts :
         LET r == get_env_manual(answers)
         IN  /\ input' = [input EXCEPT ![s] = answers]
             /\ IF r.ok
                THEN /\ env' = [env EXCEPT ![s] = r.env]
                     /\ pc' = [pc EXCEPT ![s] = "predict"]
                ELSE /\ env' = env
                     /\ pc' = [pc EXCEPT ![s] = "failed_env"]
    /\ UNCHANGED <<epc, call, ret, img, pred, result, pending, log, owner,
                   engineCalls, history>>

\* r = model.predict(...)[0]; pred_class, conf; an exception ends the session
Predict(s) ==
    /\ pc[s] = "predict"
    /\ \/ \E outcome \in Predictions :
            /\ pred' = [pred EXCEPT ![s] = outcome]
            /\ pc' = [pc EXCEPT ![s] = "recommend"]
       \/ /\ pc' = [pc EXCEPT ![s] = "failed_predict"]
          /\ pred' = pred
    /\ UNCHANGED <<epc, call, ret, img, input, env, result, pending, log, owner,
                   engineCalls, history>>

\* recommend(...), the result dict, the print, and open("a") with f.write(line)
Recommend(s) ==
    /\ pc[s] = "recommend"
    /\ \E ts \in Timestamps :
         LET r == recommend(pred[s].pred_class, pred[s].conf, env[s])
             rec == ResultRecord(ts, img[s], pred[s], env[s], r)
         IN  /\ result' = [result EXCEPT ![s] = r]
             /\ pending' = [pending EXCEPT ![s] = WriteCalls(Line(rec))]
    /\ engineCalls' = engineCalls \cup {s}
    /\ pc' = [pc EXCEPT ![s] = "write"]
    /\ UNCHANGED <<epc, call, ret, img, input, env, pred, log, owner, history>>

\* one write reaches the file; after the last one the file is closed and main returns
WriteLog(s) ==
    /\ pc[s] = "write"
    /\ pending[s] # <<>>
    /\ LET chunk == Head(pending[s])
       IN  /\ log' = AppendToLog(log, chunk)
           /\ owner' = AppendToLog(owner, [i \in DOMAIN chunk |-> s])
    /\ pending' = [pending EXCEPT ![s] = Tail(pending[s])]
    /\ IF Len(pending[s]) = 1
       THEN /\ pc' = [pc EXCEPT ![s] = "done"]
            /\ history' = Append(history, s)
       ELSE UNCHANGED <<pc, history>>
    /\ UNCHANGED <<epc, call, ret, img, input, env, pred, result, engineCalls>>

Next ==
    \E s \in Sessions :
        \/ LoadModel(s)
        \/ ReadImagePath(s)
        \/ GetEnvManual(s)
        \/ Predict(s)
        \/ Recommend(s)
        \/ WriteLog(s)

Spec == Init /\ [][Next]_vars

(***************************************************************************)
(* One call of recommend on inputs drawn from a grid around every bound.   *)
(***************************************************************************)
Categories ==
    DOMAIN SEVERITY \cup {"cobweb_disease"}

ConfSamples == {40000, 69996, 70000, 95000}

RangeKeys == DOMAIN TARGETS

EnvKeys == RangeKeys \cup {"substrate_quality_score"}

Samples(key) ==
    IF key = "substrate_quality_score" THEN {40, 59, 60, 61}
    ELSE IF key = "temp_c" THEN {1999, 2000, 2800, 2801, 3500}
    ELSE LET lo == TARGETS[key][1]
             hi == TARGETS[key][2]
         IN  {lo - 1, lo, hi, hi + 1}

RECURSIVE EnvsOver(_)
EnvsOver(keys) ==
    IF keys = {} THEN {EmptyEnv}
    ELSE LET k == CHOOSE x \in keys : TRUE
             rest == EnvsOver(keys \ {k})
         IN  rest \cup {(k :> v) @@ e : v \in Samples(k), e \in rest}

EnvSamples == EnvsOver(EnvKeys)

sessionVars == <<pc, img, input, env, pred, result, pending, log, owner, engineCalls, history>>

InitEngine ==
    /\ epc = "call"
    /\ call \in [pred_class : Categories, conf : ConfSamples, env : EnvSamples]
    /\ ret = NoResult
    /\ SessionInit

Evaluate ==
    /\ epc = "call"
    /\ ret' = recommend(call.pred_class, call.conf, call.env)
    /\ epc' = "ret"
    /\ UNCHANGED <<call, sessionVars>>

NextEngine == Evaluate

SpecEngine == InitEngine /\ [][NextEngine]_vars

(***************************************************************************)
(* Properties of recommend, checked under SpecEngine.                      *)
(***************************************************************************)
Returned == epc = "ret"

GatePassed == Returned /\ call.conf >= CONF_THRESHOLD

\* the action block the specification assigns to a category
BlockOf(c) ==
    CASE c = "green_molds_disease"      -> MoldActions
      [] c = "dry_bubble_disease"       -> BubbleActions
      [] c = "bacterial_blotch_disease" -> BlotchActions
      [] OTHER                          -> GenericActions

Elems(seq) == {seq[i] : i \in DOMAIN seq}

AllBlockActions ==
    Elems(MoldActions) \cup Elems(BubbleActions) \cup Elems(BlotchActions)
        \cup Elems(GenericActions)

\* the number of range alerts in alerts that name metric k
RangeAlertCount(alerts, k) ==
    Cardinality({i \in DOMAIN alerts : alerts[i].msg = "out of range" /\ alerts[i].key = k})

InRange(e, k) == e[k] >= TARGETS[k][1] /\ e[k] <= TARGETS[k][2]

\* C1: with confidence strictly below CONF_THRESHOLD, whatever the category
\* and the environment, alerts is exactly the one low-confidence alert and
\* actions is exactly the retake-photo and isolate-and-monitor instructions,
\* in that order; nothing of the range checks, the category blocks or the
\* substrate-quality heuristic appears.
C1_LowConfidenceShortCircuit ==
    (Returned /\ call.conf < CONF_THRESHOLD) =>
        /\ Len(ret.alerts) = 1
        /\ ret.alerts[1].msg = "Low confidence"
        /\ ret.alerts[1].key = ""
        /\ ret.actions =
             << "Retake photo with better focus and lighting; keep subject centered.",
                "If symptoms persist, isolate and monitor the bag/mushroom." >>

C1_Witness ==
    /\ Returned
    /\ call.conf < CONF_THRESHOLD
    /\ call.pred_class = "green_molds_disease"
    /\ DOMAIN call.env = EnvKeys
    /\ call.env["temp_c"] > TARGETS["temp_c"][2]
    /\ call.env["substrate_quality_score"] < QUALITY_THRESHOLD
    /\ Len(ret.alerts) = 1
    /\ Len(ret.actions) = 2

\* C2: with confidence at or above CONF_THRESHOLD (the threshold itself
\* included), every tracked metric absent or inside its inclusive range and
\* the quality score absent or at least 0.6, alerts is empty and actions is
\* exactly the category's action block.
C2_CleanEnvironment ==
    ( /\ GatePassed
      /\ \A k \in RangeKeys : k \in DOMAIN call.env => InRange(call.env, k)
      /\ \/ "substrate_quality_score" \notin DOMAIN call.env
         \/ call.env["substrate_quality_score"] >= QUALITY_THRESHOLD )
    => /\ ret.alerts = <<>>
       /\ ret.actions = BlockOf(call.pred_class)

C2_Witness ==
    /\ Returned
    /\ call.conf = CONF_THRESHOLD
    /\ call.pred_class = "dry_bubble_disease"
    /\ DOMAIN call.env = EnvKeys
    /\ \A k \in RangeKeys : call.env[k] = TARGETS[k][2]
    /\ call.env["substrate_quality_score"] = QUALITY_THRESHOLD
    /\ ret.alerts = <<>>
    /\ ret.actions = BubbleActions

\* C3: past the gate, each tracked metric on its own: a present value
\* strictly outside its range gives exactly one alert naming the metric; a
\* value on a bound or inside the range, or an absent metric, gives none.
C3_RangeAlerts ==
    GatePassed =>
        \A k \in RangeKeys :
            RangeAlertCount(ret.alerts, k) =
                IF /\ k \in DOMAIN call.env
                   /\ (call.env[k] < TARGETS[k][1] \/ call.env[k] > TARGETS[k][2])
                THEN 1 ELSE 0

C3_Witness ==
    /\ GatePassed
    /\ DOMAIN call.env = {"temp_c", "humidity_rh", "substrate_moisture_pct"}
    /\ call.env["temp_c"] = TARGETS["temp_c"][2] + 1
    /\ call.env["humidity_rh"] = TARGETS["humidity_rh"][1]
    /\ call.env["substrate_moisture_pct"] = TARGETS["substrate_moisture_pct"][1] - 1
    /\ RangeAlertCount(ret.alerts, "temp_c") = 1
    /\ RangeAlertCount(ret.alerts, "humidity_rh") = 0
    /\ RangeAlertCount(ret.alerts, "light_lux") = 0
    /\ RangeAlertCount(ret.alerts, "substrate_moisture_pct") = 1

\* C4: the severity returned depends on the category alone: the configured
\* severity for a category of SEVERITY and "unknown" for any other, on the
\* low-confidence path as on the full path.
C4_SeverityByCategory ==
    Returned =>
        ret.severity =
            CASE call.pred_class \in {"bacterial_blotch_disease", "dry_bubble_disease"}
                     -> "moderate"
              [] call.pred_class = "green_molds_disease" -> "high"
              [] call.pred_class \in {"healthy_fruiting_bag", "healthy_mushroom"} -> "none"
              [] OTHER -> "unknown"

C4_Witness ==
    /\ Returned
    /\ call.conf < CONF_THRESHOLD
    /\ call.pred_class \notin DOMAIN SEVERITY
    /\ ret.severity = "unknown"

\* C5: past the gate, actions starts with the one block of the category
\* (mold, bubble, blotch, or the generic pair for every other value,
\* categories unknown to SEVERITY included) and holds no action of another
\* block.
C5_OneCategoryBlock ==
    GatePassed =>
        LET block == BlockOf(call.pred_class)
        IN  /\ Len(ret.actions) >= Len(block)
            /\ SubSeq(ret.actions, 1, Len(block)) = block
            /\ \A i \in DOMAIN ret.actions :
                   ret.actions[i] \notin (AllBlockActions \ Elems(block))
            /\ \A i \in DOMAIN ret.actions :
                   i > Len(block) => ret.actions[i] \notin AllBlockActions

C5_Witness ==
    /\ GatePassed
    /\ call.pred_class = "bacterial_blotch_disease"
    /\ SubSeq(ret.actions, 1, 3) = BlotchActions
    /\ Len(ret.actions) = 4

\* C6: past the gate, the substrate-quality alert and the replacement
\* action are appended exactly when the score is present and strictly
\* below 0.6; when appended, each is the last element of its sequence,
\* after every range alert and after the whole category block.
C6_QualityHeuristic ==
    GatePassed =>
        LET poor == /\ "substrate_quality_score" \in DOMAIN call.env
                    /\ call.env["substrate_quality_score"] < QUALITY_THRESHOLD
            na == Len(ret.alerts)
            nc == Len(ret.actions)
        IN  IF poor
            THEN /\ na >= 1
                 /\ ret.alerts[na] = QualityAlert
                 /\ \A i \in 1..(na - 1) : ret.alerts[i].msg = "out of range"
                 /\ nc = Len(BlockOf(call.pred_class)) + 1
                 /\ ret.actions[nc] = QualityAction
                 /\ \A i \in 1..(nc - 1) : ret.actions[i] # QualityAction
            ELSE /\ \A i \in DOMAIN ret.alerts : ret.alerts[i] # QualityAlert
                 /\ \A i \in DOMAIN ret.actions : ret.actions[i] # QualityAction

C6_Witness ==
    /\ GatePassed
    /\ call.pred_class = "bacterial_blotch_disease"
    /\ DOMAIN call.env = {"temp_c", "substrate_quality_score"}
    /\ call.env["temp_c"] = 3500
    /\ call.env["substrate_quality_score"] = 40
    /\ Len(ret.alerts) = 2
    /\ ret.alerts[2] = QualityAlert
    /\ ret.actions = BlotchActions \o <<QualityAction>>

(***************************************************************************)
(* Properties of the sessions and the log, checked under Spec.             *)
(***************************************************************************)
WrittenBy(s) == {i \in DOMAIN log : owner[i] = s}

PastImageCheck(s) == pc[s] \notin {"load", "failed_load", "ask_image"}

\* C7: a session whose image path does not exist stops at the check: it
\* requests no prediction, does not call recommend, collects no environment
\* input and writes nothing to the log.
C7_MissingImageAborts ==
    \A s \in Sessions :
        (PastImageCheck(s) /\ img[s] \notin FileSystem) =>
            /\ pc[s] = "aborted"
            /\ input[s] = <<>>
            /\ pred[s] = NoPred
            /\ s \notin engineCalls
            /\ pending[s] = <<>>
            /\ WrittenBy(s) = {}

C7_Witness ==
    \E s, t \in Sessions :
        /\ pc[s] = "aborted"
        /\ img[s] = <<"missing.jpg">>
        /\ pc[t] = "done"
        /\ Len(log) = 2
        /\ WrittenBy(s) = {}

\* the log is one line per completed session, in completion order, each
\* line holding what recommend returned to that session
LogMatchesHistory ==
    /\ Len(log) = 2 * Len(history)
    /\ Cardinality({s \in Sessions : pc[s] = "done"}) = Len(history)
    /\ \A i, j \in DOMAIN history : history[i] = history[j] => i = j
    /\ \A i \in DOMAIN history :
         LET s == history[i]
             rec == log[2 * i - 1]
         IN  /\ pc[s] = "done"
             /\ rec.t = "json"
             /\ log[2 * i].t = "nl"
             /\ result[s] = recommend(pred[s].pred_class, pred[s].conf, env[s])
             /\ rec.v.predicted_class = pred[s].pred_class
             /\ rec.v.environment = env[s]
             /\ rec.v.severity = result[s].severity
             /\ rec.v.alerts = result[s].alerts
             /\ rec.v.actions = result[s].actions

\* C8: the log is append-only: every step keeps the lines already there, a
\* completing session adds exactly one newline-terminated record at the
\* end, and after N completed sessions the log is their N records in
\* completion order, each with the severity, alerts and actions recommend
\* returned for the session's class, confidence and environment.
C8_LogAppendOnly ==
    [][ /\ Len(log') >= Len(log)
        /\ SubSeq(log', 1, Len(log)) = log
        /\ LogMatchesHistory' ]_vars

C8_Witness ==
    /\ Len(history) = 2
    /\ Len(log) = 4
    /\ log[1].v.predicted_class = "bacterial_blotch_disease"
    /\ Len(log[1].v.alerts) = 2
    /\ log[3].v.predicted_class = "healthy_mushroom"
    /\ log[3].v.alerts[1].msg = "Low confidence"

\* C9: whatever the interleaving of sessions, the log is a sequence of
\* whole lines: each record is directly followed by its own newline, written
\* by the same session, and no line mixes two sessions.
C9_WholeLines ==
    \A i \in DOMAIN log :
        IF i % 2 = 1
        THEN /\ log[i].t = "json"
             /\ i + 1 <= Len(log)
             /\ log[i + 1].t = "nl"
             /\ owner[i + 1] = owner[i]
        ELSE log[i].t = "nl"

C9_Witness ==
    \E s, t \in Sessions :
        /\ s # t
        /\ pc[s] = "write"
        /\ pending[s] # <<>>
        /\ pc[t] = "done"
        /\ Len(log) = 2
        /\ owner = <<t, t>>

\* the characters a text that float() accepts can hold: digits, sign, point,
\* exponent, underscore, blanks and the letters of "inf", "infinity", "nan"
FloatChars ==
    {DigitChars[i] : i \in DOMAIN DigitChars}
        \cup {".", "-", "+", "_", " ", "e", "E", "i", "n", "f", "t", "y", "a",
              "I", "N", "F", "T", "Y", "A"}

\* an answer that is not a number: it holds a character no float text has
NonNumeric(answer) == \E i \in DOMAIN answer : answer[i] \notin FloatChars

\* C10: a session that fails after the image check, on a non-numeric
\* environment answer or on a failed classification, stays failed (no
\* retry), has not called recommend, and has written nothing, whole or
\* partial, to the log; recommend is never called by a session whose
\* environment answers hold a non-numeric value.
C10_FailedSessionLeavesLog ==
    [][ \A s \in Sessions :
          /\ pc[s] \in Failed => pc'[s] = pc[s]
          /\ pc'[s] \in {"failed_env", "failed_predict"} =>
                /\ s \notin engineCalls'
                /\ result'[s] = NoResult
                /\ pending'[s] = <<>>
                /\ \A i \in DOMAIN log' : owner'[i] # s
          /\ (\E i \in DOMAIN input'[s] : NonNumeric(input'[s][i])) =>
                /\ pc'[s] = "failed_env"
                /\ pred'[s] = NoPred
                /\ s \notin engineCalls' ]_vars

C10_Witness ==
    \E s, t \in Sessions :
        /\ pc[s] = "failed_env"
        /\ NonNumeric(input[s][3])
        /\ pc[t] = "failed_predict"
        /\ log = <<>>

====
